---------------------------- MODULE Spec2Model ----------------------------
(***************************************************************************)
(* Duck Machine DM2018S: the instruction codec (instr_format.py), the CPU  *)
(* fetch/decode/execute engine (cpu.py) and the two passes of the          *)
(* assembler (assembler_pass1.py), as state machines.                      *)
(*                                                                         *)
(* bitfield.py, register.py, alu.py, memory.py and mvc.py are imported by  *)
(* the sources but are not among them; BitField, Register, ZeroRegister,   *)
(* ALU and Memory are modelled from the specification's sections 4.1, 3,   *)
(* 4.3 and 6.                                                              *)
(***************************************************************************)
EXTENDS Integers, Sequences, FiniteSets, TLC

VARIABLES
    \* ---- CPU (cpu.py) ----
    registers,   \* CPU.registers: the 16 cells' stored values
    memory,      \* CPU.memory: address -> word
    cond_flag,   \* CPU.cond_flag: a CondFlag value, 0..15
    halted,      \* CPU.halted
    events,      \* the CPUStep observations handed to notify_all, in order
    ctl,         \* the client's latest call: "idle" (none, or a step() that
                 \* returned), "running" (inside run, at the loop test of line
                 \* 103), "prompt" (inside run, waiting in input() at line 105),
                 \* "returned" (a run that returned), "failed" (an exception
                 \* left the engine)
    from_addr,   \* run's argument from_addr
    single_step, \* run's argument single_step
    step_count,  \* run's local step_count
    last,        \* what the latest step() call did and the state it started from;
                 \* outcome "none" when no step() has been called since the CPU
                 \* was made or run was entered
    \* ---- codec (instr_format.py) ----
    c_instr,     \* an Instruction record
    c_word,      \* the word Instruction.encode returned
    c_decoded,   \* the record decode returned
    c_phase,     \* "new", "encoded", "decoded"
    \* ---- assembler (assembler_pass1.py) ----
    lines,       \* the source lines, each a sequence of tokens
    lnum,        \* build_table's loop index
    curr_addr,   \* build_table's address counter
    sym_table,   \* build_table's dictionary; transform_lines' argument sym_table
    a_phase,     \* "pass1", "table" (build_table returned), "crashed" (an
                 \* exception left build_table), "pass2" (inside transform_lines'
                 \* loop), "done" (transform_lines returned), "exit" (sys.exit(1))
    a_entry,     \* what the client called: "build_table", "main" or
                 \* "transform_lines"
    t_lnum,      \* transform_lines' loop index
    t_addr,      \* transform_lines' address counter
    error_count, \* transform_lines' error_count
    out,         \* the lines printed to the object file, in order
    done_lines   \* what transform_lines did with each line it has been through

cpu_vars   == <<registers, memory, cond_flag, halted, events, ctl, from_addr,
               single_step, step_count, last>>
codec_vars == <<c_instr, c_word, c_decoded, c_phase>>
pass2_vars == <<t_lnum, t_addr, error_count, out, done_lines>>
asm_vars   == <<lines, lnum, curr_addr, sym_table, a_phase, a_entry, pass2_vars>>
vars       == <<cpu_vars, codec_vars, asm_vars>>

None == "None"

-----------------------------------------------------------------------------
(* Bounds of the model. *)

\* memory holds addresses 0..MemSize-1
MemSize == 3
\* at most MaxSteps step() calls get past decoding in one behaviour
MaxSteps == 3
\* the codec is exercised on register indices within RegEdge of 0 and of 15
RegEdge == 1
\* and on offsets within OffEdge of -512, of 0 and of 511
OffEdge == 1
\* a source text has at most MaxLines lines
MaxLines == 2

-----------------------------------------------------------------------------
(* bitfield.py (not among the sources): BitField(lo, hi), section 4.1.     *)

\* number of bits of the field [lo, hi]
FieldWidth(lo, hi) == hi - lo + 1

\* extract(word): shift right by lo, mask to the field's width
extract(lo, hi, word) == (word \div (2 ^ lo)) % (2 ^ FieldWidth(lo, hi))

\* extract_signed(word): extract, then sign-extend from the field's top bit
extract_signed(lo, hi, word) ==
    LET u == extract(lo, hi, word)
        w == FieldWidth(lo, hi)
    IN  IF u >= 2 ^ (w - 1) THEN u - 2 ^ w ELSE u

\* insert(value, word): mask value to the width, clear the field, or the bits in
insert(lo, hi, value, word) ==
    word - extract(lo, hi, word) * (2 ^ lo)
         + (value % (2 ^ FieldWidth(lo, hi))) * (2 ^ lo)

-----------------------------------------------------------------------------
(* instr_format.py *)

\* the field bit positions, <<lo, hi>>
reserved         == <<31, 31>>
instr_field      == <<26, 30>>
cond_field       == <<22, 25>>
reg_target_field == <<18, 21>>
reg_src1_field   == <<14, 17>>
reg_src2_field   == <<10, 13>>
offset_field     == <<0, 9>>

\* class OpCode(Enum): name -> value
OpCode == [HALT |-> 0, LOAD |-> 1, STORE |-> 2, ADD |-> 3,
           SUB |-> 5, MUL |-> 6, DIV |-> 7]

OpNames == DOMAIN OpCode

\* OpCode(value): the member with that value; None stands for the ValueError
\* Enum raises when no member has it
OpCodeOf(value) ==
    IF \E n \in OpNames : OpCode[n] = value
    THEN CHOOSE n \in OpNames : OpCode[n] = value
    ELSE None

\* class CondFlag(Flag)
M == 1
Z == 2
P == 4
V == 8
NEVER == 0
ALWAYS == 15

\* the flags of a CondFlag value
FlagBits(c) == {f \in {M, Z, P, V} : (c \div f) % 2 = 1}

\* Flag.__and__: bitwise and of two CondFlag values
FlagAnd(a, b) ==
    LET common == FlagBits(a) \cap FlagBits(b)
    IN  (IF M \in common THEN M ELSE 0) + (IF Z \in common THEN Z ELSE 0)
      + (IF P \in common THEN P ELSE 0) + (IF V \in common THEN V ELSE 0)

\* Instruction.__init__
Instruction(op, cond, reg_target, reg_src1, reg_src2, offset) ==
    [op |-> op, cond |-> cond, reg_target |-> reg_target,
     reg_src1 |-> reg_src1, reg_src2 |-> reg_src2, offset |-> offset]

\* an encode that adds each field's value at the field's position, unmasked
encode_unmasked(i) ==
    OpCode[i.op] * (2 ^ instr_field[1]) + i.cond * (2 ^ cond_field[1])
      + i.reg_target * (2 ^ reg_target_field[1])
      + i.reg_src1 * (2 ^ reg_src1_field[1])
      + i.reg_src2 * (2 ^ reg_src2_field[1])
      + i.offset * (2 ^ offset_field[1])

\* Instruction.encode
encode(i) ==
    LET w0 == 0
        w1 == insert(instr_field[1], instr_field[2], OpCode[i.op], w0)
        w2 == insert(cond_field[1], cond_field[2], i.cond, w1)
        w3 == insert(reg_target_field[1], reg_target_field[2], i.reg_target, w2)
        w4 == insert(reg_src1_field[1], reg_src1_field[2], i.reg_src1, w3)
        w5 == insert(reg_src2_field[1], reg_src2_field[2], i.reg_src2, w4)
        w6 == insert(offset_field[1], offset_field[2], i.offset, w5)
    IN  w6

\* a decode that reads the offset with extract, unsigned
decode_offset_unsigned(word) == extract(offset_field[1], offset_field[2], word)

\* decode's offset: offset_field.extract_signed(word)
decode_offset(word) == extract_signed(offset_field[1], offset_field[2], word)

\* a decode that raises on no word
DecodeAnything(word) == TRUE

\* decode raises (OpCode(op) has no such member) exactly when this is FALSE
DecodeOK(word) ==
    OpCodeOf(extract(instr_field[1], instr_field[2], word)) /= None

\* decode(word), for a word it does not raise on
decode(word) ==
    LET op         == extract(instr_field[1], instr_field[2], word)
        cond       == extract(cond_field[1], cond_field[2], word)
        reg_target == extract(reg_target_field[1], reg_target_field[2], word)
        reg_src1   == extract(reg_src1_field[1], reg_src1_field[2], word)
        reg_src2   == extract(reg_src2_field[1], reg_src2_field[2], word)
        offset     == decode_offset(word)
    IN  Instruction(OpCodeOf(op), cond, reg_target, reg_src1, reg_src2, offset)

-----------------------------------------------------------------------------
(* The codec as a state machine: a record is encoded, the word is decoded. *)

CodecRegs == {r \in 0..15 : r <= RegEdge \/ r >= 15 - RegEdge}

CodecOffsets ==
    {o \in -512..511 : \/ o <= -512 + OffEdge
                       \/ (-OffEdge <= o /\ o <= OffEdge)
                       \/ o >= 511 - OffEdge}

\* the well-formed records the codec is exercised on
CodecInstrs ==
    {Instruction(op, c, t, s1, s2, o) :
        op \in OpNames, c \in 0..15, t \in CodecRegs, s1 \in CodecRegs,
        s2 \in CodecRegs, o \in CodecOffsets}

NoInstr == Instruction("HALT", NEVER, 0, 0, 0, 0)

CodecIdle ==
    /\ c_instr = NoInstr
    /\ c_word = 0
    /\ c_decoded = NoInstr
    /\ c_phase = "off"

InitCodecVars ==
    /\ c_instr \in CodecInstrs
    /\ c_word = 0
    /\ c_decoded = NoInstr
    /\ c_phase = "new"

\* register indices in and beyond the 4 bits of a register field
WideRegs == {-1, 0, 15, 16, 31}

\* offsets in and beyond the 10 bits of the offset field
WideOffsets ==
    {-2048, -1025, -1024, -513, -512, -1, 0, 511, 512, 513, 1023, 1024, 2047}

\* the condition sets of the records below
WideConds == {NEVER, M + P, Z + V, ALWAYS}

\* Instruction records whose register and offset values need not fit their
\* fields (Instruction.__init__ takes any int)
WideInstrs ==
    {Instruction(op, c, t, s1, s2, o) :
        op \in OpNames, c \in WideConds, t \in WideRegs, s1 \in WideRegs,
        s2 \in WideRegs, o \in WideOffsets}

InitCodecWideVars ==
    /\ c_instr \in WideInstrs
    /\ c_word = 0
    /\ c_decoded = NoInstr
    /\ c_phase = "new"

\* word = i.encode()
Encode ==
    /\ c_phase = "new"
    /\ c_word' = encode(c_instr)
    /\ c_phase' = "encoded"
    /\ UNCHANGED <<c_instr, c_decoded>>
    /\ UNCHANGED <<cpu_vars, asm_vars>>

\* decode(word); a word decode raises on leaves the machine in "raised"
Decode ==
    /\ c_phase = "encoded"
    /\ IF DecodeOK(c_word)
       THEN /\ c_decoded' = decode(c_word)
            /\ c_phase' = "decoded"
       ELSE /\ c_phase' = "raised"
            /\ UNCHANGED c_decoded
    /\ UNCHANGED <<c_instr, c_word>>
    /\ UNCHANGED <<cpu_vars, asm_vars>>

-----------------------------------------------------------------------------
(* register.py (not among the sources): Register and ZeroRegister,         *)
(* section 3. A register file is a function 0..15 -> Int of stored values. *)

\* a new Register() holds 0
NewRegisters == [r \in 0..15 |-> 0]

\* a CPU.__init__ that makes all 16 registers plain
NoZeroRegister(r) == FALSE

\* CPU.__init__, lines 41-43: the register at index 0 is a ZeroRegister, the
\* others are plain
IsZeroRegister(r) == r = 0

\* registers[r].get(): a ZeroRegister always reads 0
RegGet(regs, r) == IF IsZeroRegister(r) THEN 0 ELSE regs[r]

\* registers[r].put(v): a no-op on a ZeroRegister
RegPut(regs, r, v) == IF IsZeroRegister(r) THEN regs ELSE [regs EXCEPT ![r] = v]

(* memory.py (not among the sources): section 6, get and put fail with a   *)
(* bounds error on an out-of-range address.                                *)
Addresses == 0..(MemSize - 1)

MemInRange(address) == address \in Addresses

(* alu.py (not among the sources): ALU.exec, section 4.3.                  *)

\* integer division truncating toward zero, b /= 0
TruncDiv(a, b) ==
    LET q == (IF a < 0 THEN -a ELSE a) \div (IF b < 0 THEN -b ELSE b)
    IN  IF (a < 0) = (b < 0) THEN q ELSE -q

\* the result of op on (a, b); a division by zero yields 0
ALUResult(op, a, b) ==
    CASE op = "SUB" -> a - b
      [] op = "MUL" -> a * b
      [] op = "DIV" -> IF b = 0 THEN 0 ELSE TruncDiv(a, b)
      [] OTHER      -> a + b

\* exactly one of M, Z, P by the sign of the result
SignFlag(result) == IF result < 0 THEN M ELSE IF result = 0 THEN Z ELSE P

\* the flags of op on (a, b): the sign flag, with V on a division by zero
ALUFlags(op, a, b) ==
    SignFlag(ALUResult(op, a, b))
        + (IF op = "DIV" /\ b = 0 THEN V ELSE 0)

\* ALU.exec(op, a, b) -> (result, flags)
ALUexec(op, a, b) == <<ALUResult(op, a, b), ALUFlags(op, a, b)>>

-----------------------------------------------------------------------------
(* cpu.py *)

\* TLC's integers are 32 bits wide and Python's are not: a step whose operands
\* could leave that width is not explored
InModelRange(op, a, b) ==
    LET lim == IF op = "MUL" THEN 2 ^ 14 ELSE 2 ^ 29
    IN  /\ -lim <= a /\ a <= lim
        /\ -lim <= b /\ b <= lim

\* CPU.program_pointer is registers[15]
PC == 15

\* the CPUStep event step() hands to notify_all
CPUStep(pc_addr, instr_word) ==
    [pc_addr |-> pc_addr, instr_word |-> instr_word, instr |-> decode(instr_word)]

\* the record kept of a step() call: its outcome, the word it fetched (None when
\* the fetch failed) and the state it started from
StepRecord(outcome, word) ==
    [outcome |-> outcome, word |-> word, registers |-> registers,
     memory |-> memory, cond_flag |-> cond_flag, halted |-> halted,
     events |-> events]

\* a predicate that ors the flags with the condition
predicate_or(flags, instr) ==
    IF flags = NEVER /\ instr.cond = NEVER THEN NEVER ELSE ALWAYS

\* step(), lines 62-93: the predicate
predicate(flags, instr) == FlagAnd(flags, instr.cond)

\* a skip that leaves the program counter where it is
step_skip_stay == UNCHANGED <<registers, memory, cond_flag, halted>>

\* step(), line 93: the predicate is false
step_skip ==
    /\ registers' = RegPut(registers, PC, RegGet(registers, PC) + 1)
    /\ UNCHANGED <<memory, cond_flag, halted>>

\* a step that does not advance the program counter before the ALU runs
step_no_increment(regs) == regs

\* step(), line 74: the program counter is advanced before the ALU runs
step_increment(regs) == RegPut(regs, PC, RegGet(regs, PC) + 1)

\* a dispatch whose write does not reach the program counter
write_target_not_pc(regs, reg_target, value) ==
    IF reg_target = PC THEN regs ELSE RegPut(regs, reg_target, value)

\* step(), lines 84 and 91: registers[reg_target].put(value), after the increment
write_target(regs, reg_target, value) == RegPut(regs, reg_target, value)

\* a second operand read after the program counter has been advanced
operand2_after_increment(regs, instr) ==
    RegGet(step_increment(regs), instr.reg_src2) + instr.offset

\* step(), lines 70-71: the second operand, from the registers as step() found
\* them
operand2(regs, instr) == RegGet(regs, instr.reg_src2) + instr.offset

\* a flag register that only the ALU opcodes set
step_flags_alu_only(flags, instr, res) ==
    IF instr.op \in {"HALT", "LOAD", "STORE"} THEN flags ELSE res[2]

\* step(), line 77: the flag register takes the flags alu.exec returned
step_flags(flags, instr, res) == res[2]

\* a LOAD that writes the address it computed
load_word_address(mem, address) == address

\* step(), line 83: memory.get(result)
load_word(mem, address) == mem[address]

\* a STORE that writes the ALU result
store_word_result(regs, instr, result) == result

\* step(), line 87: the word STORE writes, registers[reg_target].get() on the
\* registers as they are at dispatch
store_word(regs, instr, result) == RegGet(regs, instr.reg_target)

\* step(), lines 66-91: the predicate is true. outcome is "executed", or
\* "access_error" when memory.get/put raised on the LOAD/STORE address
step_execute(instr, outcome) ==
    LET val1   == RegGet(registers, instr.reg_src1)
        val2   == operand2(registers, instr)
        regs1  == step_increment(registers)
        res    == ALUexec(instr.op, val1, val2)
        result == res[1]
    IN  /\ InModelRange(instr.op, val1, RegGet(registers, instr.reg_src2))
        /\ cond_flag' = step_flags(cond_flag, instr, res)
        /\ CASE instr.op = "HALT" ->
                  /\ halted' = TRUE
                  /\ registers' = regs1
                  /\ outcome = "executed"
                  /\ UNCHANGED memory
             [] instr.op = "LOAD" ->
                  /\ IF MemInRange(result)
                     THEN /\ registers' = write_target(regs1, instr.reg_target,
                                                     load_word(memory, result))
                          /\ outcome = "executed"
                     ELSE /\ registers' = regs1
                          /\ outcome = "access_error"
                  /\ UNCHANGED <<memory, halted>>
             [] instr.op = "STORE" ->
                  /\ IF MemInRange(result)
                     THEN /\ memory' = [memory EXCEPT ![result] =
                                            store_word(regs1, instr, result)]
                          /\ outcome = "executed"
                     ELSE /\ UNCHANGED memory
                          /\ outcome = "access_error"
                  /\ registers' = regs1
                  /\ UNCHANGED halted
             [] OTHER ->
                  /\ registers' = write_target(regs1, instr.reg_target, result)
                  /\ outcome = "executed"
                  /\ UNCHANGED <<memory, halted>>

\* the outcomes of step() that are exceptions leaving it
StepErrors == {"fetch_error", "decode_error", "access_error"}

\* CPU.step
step ==
    LET address == RegGet(registers, PC)
    IN  IF ~MemInRange(address)
        THEN \* memory.get(address) raises
             /\ last' = StepRecord("fetch_error", None)
             /\ UNCHANGED <<registers, memory, cond_flag, halted, events>>
        ELSE LET instruction_word == memory[address]
             IN  IF ~DecodeOK(instruction_word)
                 THEN \* decode(instruction_word) raises
                      /\ last' = StepRecord("decode_error", instruction_word)
                      /\ UNCHANGED <<registers, memory, cond_flag, halted, events>>
                 ELSE LET decoded_word == decode(instruction_word)
                      IN  /\ events' = Append(events, CPUStep(address, instruction_word))
                          /\ IF predicate(cond_flag, decoded_word) /= NEVER
                             THEN \E outcome \in {"executed", "access_error"} :
                                     /\ step_execute(decoded_word, outcome)
                                     /\ last' = StepRecord(outcome, instruction_word)
                             ELSE /\ step_skip
                                  /\ last' = StepRecord("skipped", instruction_word)

\* the client calls step() outside run
Step ==
    /\ ctl \in {"idle", "returned"}
    /\ Len(events) < MaxSteps
    /\ step
    /\ ctl' = IF last'.outcome \in StepErrors THEN "failed" ELSE "idle"
    /\ UNCHANGED <<from_addr, single_step, step_count>>
    /\ UNCHANGED <<codec_vars, asm_vars>>

\* run(from_addr, single_step), lines 99-101. The client calls run on a CPU it
\* has not stepped yet, or after an earlier run returned
RunStart(addr, single) ==
    /\ ctl = "returned" \/ (ctl = "idle" /\ events = <<>>)
    /\ from_addr' = addr
    /\ single_step' = single
    /\ registers' = RegPut(registers, PC, from_addr')
    /\ step_count' = 0
    /\ ctl' = "running"
    /\ last' = StepRecord("none", None)
    /\ UNCHANGED <<memory, cond_flag, halted, events>>
    /\ UNCHANGED <<codec_vars, asm_vars>>

\* run, lines 103-105: in single-step mode a turn of the loop prints
\* "Step <step_count>; press enter" and waits in input() for a line
RunPrompt ==
    /\ ctl = "running"
    /\ ~halted
    /\ single_step
    /\ Len(events) < MaxSteps
    /\ ctl' = "prompt"
    /\ UNCHANGED <<registers, memory, cond_flag, halted, events, from_addr,
                   single_step, step_count, last>>
    /\ UNCHANGED <<codec_vars, asm_vars>>

\* run, line 105: the input stream is at its end; input() raises EOFError,
\* which leaves run before step() is called
RunPromptEOF ==
    /\ ctl = "prompt"
    /\ ctl' = "failed"
    /\ UNCHANGED <<registers, memory, cond_flag, halted, events, from_addr,
                   single_step, step_count, last>>
    /\ UNCHANGED <<codec_vars, asm_vars>>

\* a loop that goes on stepping a halted CPU
RunStepHalted ==
    /\ \/ ctl = "running" /\ ~single_step
       \/ ctl = "prompt"
    /\ Len(events) < MaxSteps
    /\ step
    /\ IF last'.outcome \in StepErrors
       THEN ctl' = "failed" /\ UNCHANGED step_count
       ELSE ctl' = "running" /\ step_count' = step_count + 1
    /\ UNCHANGED <<from_addr, single_step>>
    /\ UNCHANGED <<codec_vars, asm_vars>>

\* run, lines 103-107: the rest of a turn of the loop, step() and the count;
\* without single_step right after the loop test, in single-step mode when
\* input() returns a line
RunStep ==
    /\ \/ ctl = "running" /\ ~halted /\ ~single_step
       \/ ctl = "prompt"
    /\ Len(events) < MaxSteps
    /\ step
    /\ IF last'.outcome \in StepErrors
       THEN ctl' = "failed" /\ UNCHANGED step_count
       ELSE ctl' = "running" /\ step_count' = step_count + 1
    /\ UNCHANGED <<from_addr, single_step>>
    /\ UNCHANGED <<codec_vars, asm_vars>>

\* a run whose loop ends whether or not halted is set
RunReturnAnytime ==
    /\ ctl = "running"
    /\ ctl' = "returned"
    /\ UNCHANGED <<registers, memory, cond_flag, halted, events, from_addr,
                   single_step, step_count, last>>
    /\ UNCHANGED <<codec_vars, asm_vars>>

\* run, line 103: the loop ends and run returns
RunReturn ==
    /\ ctl = "running"
    /\ halted
    /\ ctl' = "returned"
    /\ UNCHANGED <<registers, memory, cond_flag, halted, events, from_addr,
                   single_step, step_count, last>>
    /\ UNCHANGED <<codec_vars, asm_vars>>

\* the addresses run is started from
StartAddrs == {0, 1}

\* CPU.run
run ==
    \/ \E addr \in StartAddrs, single \in BOOLEAN : RunStart(addr, single)
    \/ RunPrompt
    \/ RunPromptEOF
    \/ RunStep
    \/ RunReturn

-----------------------------------------------------------------------------
(* The programs the CPU is run on: every memory of MemSize words drawn     *)
(* from ProgWords.                                                         *)

\* a word whose opcode field is op and condition field is cond, the rest 0
RawWord(op, cond) == op * (2 ^ instr_field[1]) + cond * (2 ^ cond_field[1])

ProgWords ==
    { encode(Instruction("HALT",  ALWAYS, 0, 0, 0, 0)),
      encode(Instruction("HALT",  NEVER,  0, 0, 0, 0)),
      encode(Instruction("SUB",   ALWAYS, 1, 0, 0, 1)),
      encode(Instruction("ADD",   Z + P,  1, 1, 0, 1)),
      encode(Instruction("ADD",   ALWAYS, 15, 0, 15, -1)),
      encode(Instruction("LOAD",  Z,      1, 0, 0, 1)),
      encode(Instruction("LOAD",  ALWAYS, 15, 1, 0, 2)),
      encode(Instruction("STORE", P + M,  1, 0, 1, 1)),
      encode(Instruction("STORE", ALWAYS, 15, 15, 0, 1)),
      encode(Instruction("DIV",   ALWAYS, 1, 1, 0, 0)),
      encode(Instruction("MUL",   M,      0, 1, 1, 0)),
      encode(Instruction("LOAD",  V,      0, 0, 0, 0)),
      RawWord(4, ALWAYS),
      RawWord(8, NEVER),
      RawWord(31, ALWAYS) }

\* a CPU.__init__ that starts with the empty flag set
InitialFlagsNever == NEVER

\* CPU.__init__, line 44
InitialFlags == ALWAYS

CPUIdle ==
    /\ registers = NewRegisters
    /\ memory = [a \in Addresses |-> 0]
    /\ cond_flag = InitialFlags
    /\ halted = FALSE
    /\ events = <<>>
    /\ ctl = "off"
    /\ from_addr = 0
    /\ single_step = FALSE
    /\ step_count = 0
    /\ last = StepRecord("none", None)

\* CPU.__init__, on a memory holding a program
InitCPUVars ==
    /\ registers = NewRegisters
    /\ memory \in [Addresses -> ProgWords]
    /\ cond_flag = InitialFlags
    /\ halted = FALSE
    /\ events = <<>>
    /\ ctl = "idle"
    /\ from_addr = 0
    /\ single_step = FALSE
    /\ step_count = 0
    /\ last = StepRecord("none", None)

-----------------------------------------------------------------------------
(* assembler_pass1.py. A source line is the sequence of its tokens, and    *)
(* the line's text is their concatenation: words, numbers, the punctuation *)
(* the patterns name, a run of white space as the token " ", and a comment *)
(* character with the text after it as one token. The patterns are matched *)
(* on the tokens as re.fullmatch matches them on the text: what a pattern  *)
(* writes side by side has no white space in between.                      *)

\* [a-zA-Z]+ : what the FULL pattern takes as opcode or predicate
AlphaWords == {"ADD", "HALT", "LOAD", "STORE", "JUMP", "DATA", "Z",
               "loop", "x", "end", "here", "nowhere"}

\* r[0-9]+ : a register
RegWords == {"r0", "r1", "r2", "r15"}

\* [a-zA-Z]\w* : a label or a symbol
IdentWords == AlphaWords \cup RegWords

\* [-]?[0-9]+ : an offset
OffsetWords == {"0", "18", "-1"}

\* (0x[a-fA-F0-9]+)|([0-9]+) : a DATA value
ValueWords == {"0", "18", "0x1F"}

\* [\#;].* : a comment
CommentWords == {"#c"}

\* \s+ : a run of white space
SpaceWords == {" "}

\* the tokens from index m on
Rest(line, m) == SubSeq(line, m, Len(line))

\* \s* at the start of these tokens: what is left after it
RECURSIVE SkipSpace(_)
SkipSpace(s) ==
    IF s /= <<>> /\ Head(s) \in SpaceWords THEN SkipSpace(Tail(s)) ELSE s

\* \s* at the end of these tokens: what is left before it
RECURSIVE DropSpace(_)
DropSpace(s) ==
    IF s /= <<>> /\ s[Len(s)] \in SpaceWords
    THEN DropSpace(SubSeq(s, 1, Len(s) - 1))
    ELSE s

\* the text of these tokens
RECURSIVE Text(_)
Text(s) == IF s = <<>> THEN "" ELSE Head(s) \o Text(Tail(s))

\* the optional leading  label:  , at the start of the line and with its colon
\* right after it
HasLabel(line) == Len(line) >= 2 /\ line[1] \in IdentWords /\ line[2] = ":"

LabelOf(line) == IF HasLabel(line) THEN line[1] ELSE None

\* where the comment starts: at the first comment character of the line
\* (Len(line) + 1 when there is none)
CommentStart(line) ==
    LET at == {n \in 1..Len(line) : line[n] \in CommentWords}
    IN  IF at = {} THEN Len(line) + 1
        ELSE CHOOSE n \in at : \A m \in at : n <= m

\* the optional trailing comment
HasComment(line) == CommentStart(line) <= Len(line)

\* the comment runs to the end of the line
CommentOf(line) ==
    IF HasComment(line) THEN Text(Rest(line, CommentStart(line))) ELSE None

\* the line without its label, its comment, the \s* after the label and the
\* \s* before the comment or the end of the line (every pattern has both)
Body(line) ==
    DropSpace(SkipSpace(SubSeq(line, IF HasLabel(line) THEN 3 ELSE 1,
                                     CommentStart(line) - 1)))

\* the optional  /predicate  right after the opcode
HasPredicate(b) == Len(b) >= 3 /\ b[2] = "/" /\ b[3] \in AlphaWords

PredicateOf(b) == IF HasPredicate(b) THEN b[3] ELSE None

\* the tokens after the opcode and its predicate
AfterOpcode(b) == Rest(b, IF HasPredicate(b) THEN 4 ELSE 2)

\* the \s+ between the opcode (and its predicate) and the operands
HasGap(b) == AfterOpcode(b) /= <<>> /\ Head(AfterOpcode(b)) \in SpaceWords

\* the tokens after that white space
Operands(b) == SkipSpace(AfterOpcode(b))

\* the tokens after DATA and the \s* that follows it
DataValue(b) == SkipSpace(Rest(b, 2))

\* ASM_FULL_PAT, on a body
MatchFULL(b) ==
    /\ Len(b) >= 1 /\ b[1] \in AlphaWords
    /\ HasGap(b)
    /\ LET r == Operands(b)
       IN  /\ Len(r) \in {5, 8}
           /\ r[1] \in RegWords /\ r[2] = "," /\ r[3] \in RegWords
           /\ r[4] = "," /\ r[5] \in RegWords
           /\ Len(r) = 8 => (r[6] = "[" /\ r[7] \in OffsetWords /\ r[8] = "]")

\* ASM_DATA_PAT, on a body
MatchDATA(b) ==
    /\ Len(b) >= 1 /\ b[1] = "DATA"
    /\ LET v == DataValue(b)
       IN  v = <<>> \/ (Len(v) = 1 /\ v[1] \in ValueWords)

\* ASM_COMMENT_PAT, on a body
MatchCOMMENT(b) == b = <<>>

\* ASM_SYMBOLIC_PAT, on a body
MatchSYMBOLIC(b) ==
    /\ Len(b) >= 1 /\ b[1] \in {"STORE", "LOAD", "JUMP"}
    /\ HasGap(b)
    /\ LET r == Operands(b)
       IN  \/ Len(r) = 1 /\ r[1] \in IdentWords
           \/ Len(r) = 3 /\ r[1] \in RegWords /\ r[2] = "," /\ r[3] \in IdentWords

\* PATTERNS: the kind of the first pattern, in this order, that matches;
\* None when parse_line raises SyntaxError
KindOf(line) ==
    LET b == Body(line)
    IN  CASE MatchFULL(b)     -> "FULL"
          [] MatchDATA(b)     -> "DATA"
          [] MatchCOMMENT(b)  -> "COMMENT"
          [] MatchSYMBOLIC(b) -> "SYMBOLIC"
          [] OTHER            -> None

\* parse_line: match.groupdict() of the matching pattern, plus "kind"
parse_line(line) ==
    LET b == Body(line)
        r == Operands(b)
        v == DataValue(b)
        k == KindOf(line)
    IN  CASE k = "FULL" ->
               [kind |-> k, label |-> LabelOf(line), opcode |-> b[1],
                predicate |-> PredicateOf(b), target |-> r[1], src1 |-> r[3],
                src2 |-> r[5], offset |-> IF Len(r) = 8 THEN r[7] ELSE None,
                comment |-> CommentOf(line)]
          [] k = "DATA" ->
               [kind |-> k, label |-> LabelOf(line), opcode |-> b[1],
                value |-> IF v /= <<>> THEN v[1] ELSE None,
                comment |-> CommentOf(line)]
          [] k = "COMMENT" ->
               [kind |-> k, label |-> LabelOf(line), comment |-> CommentOf(line)]
          [] k = "SYMBOLIC" ->
               [kind |-> k, label |-> LabelOf(line), opcode |-> b[1],
                predicate |-> PredicateOf(b),
                target |-> IF Len(r) = 3 THEN r[1] ELSE None,
                symbol |-> r[Len(r)], comment |-> CommentOf(line)]
          [] OTHER -> [kind |-> None]

\* d[key] = value on a dict
DictPut(d, key, value) ==
    [k \in DOMAIN d \cup {key} |-> IF k = key THEN value ELSE d[k]]

\* build_table, lines 298-299: the address counter after a line of this kind
next_addr(addr, kind) == IF kind /= "COMMENT" THEN addr + addr ELSE addr

\* build_table, lines 301-303: the table after a line with these fields
next_table(table, fields, addr) ==
    IF fields.kind = "SYMBOLIC"
    THEN DictPut(DictPut(table, "label", fields.symbol), "position", addr)
    ELSE table

\* build_table, lines 294-303: one turn of the loop
build_table_line ==
    /\ a_phase = "pass1"
    /\ lnum < Len(lines)
    /\ LET fields == parse_line(lines[lnum + 1])
       IN  IF fields.kind = None
           THEN \* parse_line raised SyntaxError, which build_table does not catch
                /\ a_phase' = "crashed"
                /\ UNCHANGED <<lnum, curr_addr, sym_table>>
           ELSE /\ curr_addr' = next_addr(curr_addr, fields.kind)
                /\ sym_table' = next_table(sym_table, fields, curr_addr')
                /\ lnum' = lnum + 1
                /\ UNCHANGED a_phase
    /\ UNCHANGED <<lines, a_entry, pass2_vars>>
    /\ UNCHANGED <<cpu_vars, codec_vars>>

\* build_table, line 304: return sym_table
build_table_return ==
    /\ a_phase = "pass1"
    /\ lnum = Len(lines)
    /\ a_phase' = "table"
    /\ UNCHANGED <<lines, lnum, curr_addr, sym_table, a_entry, pass2_vars>>
    /\ UNCHANGED <<cpu_vars, codec_vars>>

\* build_table
build_table == build_table_line \/ build_table_return

\* the source lines the assembler is run on
LineSamples ==
    { <<"loop", ":", " ", "ADD", " ", "r1", ",", "r1", ",", "r2", "[", "0", "]">>,
      <<"JUMP", " ", "loop">>,
      <<"x", ":", " ", "DATA", " ", "18">>,
      <<"LOAD", "/", "Z", " ", "r1", ",", "x", " ", "#c">>,
      <<"end", ":", " ", "#c">>,
      <<"loop", ":", " ", "HALT", " ", "r0", ",", "r0", ",", "r0">>,
      <<"here", ":", " ", "STORE", " ", "r2", ",", "nowhere">>,
      <<"ADD", " ", "r1", ",">>,
      <<"LOAD", " ", "r1", ",", " ", "x">>,
      <<"x", " ", ":", " ", "DATA", " ", "18">> }

Sources == UNION {[1..n -> LineSamples] : n \in 1..MaxLines}

\* transform_lines has not been entered
Pass2Idle ==
    /\ t_lnum = 0
    /\ t_addr = 0
    /\ error_count = 0
    /\ out = <<>>
    /\ done_lines = <<>>

AsmIdle ==
    /\ lines = <<>>
    /\ lnum = 0
    /\ curr_addr = 0
    /\ sym_table = <<>>
    /\ a_phase = "off"
    /\ a_entry = "off"
    /\ Pass2Idle

\* build_table, lines 291-292
InitAsmVars ==
    /\ lines \in Sources
    /\ lnum = 0
    /\ curr_addr = 0
    /\ sym_table = <<>>
    /\ a_phase = "pass1"
    /\ a_entry = "build_table"
    /\ Pass2Idle

-----------------------------------------------------------------------------
(* assembler_pass1.py, pass 2: transform_lines and resolve_line. A Python  *)
(* value handed to resolve_line carries its type, because resolve_line is  *)
(* called with a dictionary where it expects an integer and the reverse.   *)

\* ERROR_LIMIT, line 71
ERROR_LIMIT == 5

\* an int
PyInt(n) == [type |-> "int", val |-> n]

\* a dict
PyDict(d) == [type |-> "dict", val |-> d]

\* a call that raised this exception
Raised(exc) == [raised |-> exc, value |-> None]

\* a call that returned this value
Returned(v) == [raised |-> None, value |-> v]

\* resolve_line, line 353: new_line = ''
empty_line == [text |-> ""]

\* resolve_line, lines 359-364: the line the LOAD/STORE branch formats (the
\* format has six places; the seventh argument, sym_table['label'], is read
\* and not printed)
access_line(fields, offset) ==
    [text |-> "access", opcode |-> fields.opcode, predicate |-> fields.predicate,
     target |-> fields.target, src1 |-> fields.src1, src2 |-> "r15",
     offset |-> offset, comment |-> fields.comment]

\* resolve_line(fields, curr_addr, sym_table), lines 349-374
resolve_line(fields, addr, table) ==
    IF "symbol" \notin DOMAIN fields
    THEN Raised("KeyError")                    \* fields["symbol"], line 354
    ELSE IF table.type /= "dict"
    THEN Raised("TypeError")                   \* ... in <int>, line 354
    ELSE IF fields.symbol \notin DOMAIN table.val
    THEN Returned(empty_line)                  \* return new_line, line 374
    ELSE IF "position" \notin DOMAIN table.val
    THEN Raised("KeyError")                    \* sym_table['position'], line 355
    ELSE IF addr.type /= "int"
    THEN Raised("TypeError")                   \* <dict> + <int>, line 355
    \* line 358:  fields["opcode"] == 'LOAD' or 'STORE'  is true for every opcode
    ELSE IF "src1" \notin DOMAIN fields
    THEN Raised("KeyError")                    \* fields["src1"], line 362
    ELSE IF "label" \notin DOMAIN table.val
    THEN Raised("KeyError")                    \* sym_table['label'], line 364
    ELSE Returned(access_line(fields, addr.val + table.val["position"]))

\* transform_lines, line 328:  kind == FULL or AsmSrcKind.SYMBOLIC ; an enum
\* member is true, so the condition holds for every kind
is_resolved_kind(kind) == kind = "FULL" \/ TRUE

\* transform_lines, line 331: the name args is not bound in transform_lines
\* (main's args, line 392, is local to main), so reading it raises NameError
ArgsInScope == FALSE

\* transform_lines, lines 334-342: how an exception raised in the loop body is
\* reported
handler(exc) ==
    CASE exc = "SyntaxError" -> "Syntax error"
      [] exc = "KeyError"    -> "Unknown label"
      [] OTHER               -> "Exception encountered"

\* an exit test that fires when the count reaches the limit
over_limit_reached(count) == count >= ERROR_LIMIT

\* transform_lines, line 343
over_limit(count) == count > ERROR_LIMIT

\* transform_lines, lines 321-331: the try block on one line, with the address
\* counter addr and the table; what it raised, what it printed to the object
\* file (a sequence of no line or one), whether it called resolve_line, and the
\* address counter it left
try_line(line, addr, table) ==
    LET fields == parse_line(line)
    IN  IF fields.kind = None
        THEN [raised |-> "SyntaxError", printed |-> <<>>, resolved |-> FALSE,
              addr |-> addr, kind |-> None]
        ELSE LET addr1 == next_addr(addr, fields.kind)
             IN  IF is_resolved_kind(fields.kind)
                 THEN LET r == resolve_line(fields, PyDict(table), PyInt(addr1))
                      IN  IF r.raised /= None
                          THEN [raised |-> r.raised, printed |-> <<>>,
                                resolved |-> TRUE, addr |-> addr1,
                                kind |-> fields.kind]
                          ELSE IF ArgsInScope
                          THEN [raised |-> None, printed |-> <<r.value>>,
                                resolved |-> TRUE, addr |-> addr1,
                                kind |-> fields.kind]
                          ELSE [raised |-> "NameError", printed |-> <<>>,
                                resolved |-> TRUE, addr |-> addr1,
                                kind |-> fields.kind]
                 ELSE [raised |-> None, printed |-> <<>>, resolved |-> FALSE,
                       addr |-> addr1, kind |-> fields.kind]

\* the record kept of one turn of transform_lines' loop: the line's index and
\* kind, the report printed for it (None when nothing was raised), the lines
\* printed to the object file, whether resolve_line was called, the address
\* counter before and after, the error count after
DoneLine(t, count) ==
    [lnum |-> t_lnum, kind |-> t.kind,
     report |-> IF t.raised = None THEN None ELSE handler(t.raised),
     printed |-> t.printed, resolved |-> t.resolved,
     addr_before |-> t_addr, addr_after |-> t.addr, count |-> count]

\* transform_lines, lines 320-345: one turn of the loop
transform_line ==
    /\ a_phase = "pass2"
    /\ t_lnum < Len(lines)
    /\ LET t     == try_line(lines[t_lnum + 1], t_addr, sym_table)
           count == IF t.raised = None THEN error_count ELSE error_count + 1
       IN  /\ t_addr' = t.addr
           /\ error_count' = count
           /\ out' = out \o t.printed
           /\ done_lines' = Append(done_lines, DoneLine(t, count))
           /\ IF over_limit(count)
              THEN a_phase' = "exit" /\ UNCHANGED t_lnum
              ELSE a_phase' = "pass2" /\ t_lnum' = t_lnum + 1
    /\ UNCHANGED <<lines, lnum, curr_addr, sym_table, a_entry>>
    /\ UNCHANGED <<cpu_vars, codec_vars>>

\* transform_lines, line 347: return None
transform_return ==
    /\ a_phase = "pass2"
    /\ t_lnum = Len(lines)
    /\ a_phase' = "done"
    /\ UNCHANGED <<lines, lnum, curr_addr, sym_table, a_entry, pass2_vars>>
    /\ UNCHANGED <<cpu_vars, codec_vars>>

\* transform_lines
transform_lines == transform_line \/ transform_return

\* main, line 395: transform_lines(lines, table), on what build_table returned
main_transform ==
    /\ a_entry = "main"
    /\ a_phase = "table"
    /\ a_phase' = "pass2"
    /\ t_lnum' = 0
    /\ t_addr' = 0
    /\ error_count' = 0
    /\ UNCHANGED <<lines, lnum, curr_addr, sym_table, a_entry, out, done_lines>>
    /\ UNCHANGED <<cpu_vars, codec_vars>>

\* main
main == build_table \/ main_transform \/ transform_lines

\* a source text may be as long as this when its lines are from LongSamples
MaxLongLines == 7

\* the lines longer source texts are made of
LongSamples ==
    { <<"ADD", " ", "r1", ",">>,
      <<"JUMP", " ", "loop">>,
      <<"end", ":", " ", "#c">> }

LongSources == UNION {[1..n -> LongSamples] : n \in (MaxLines + 1)..MaxLongLines}

\* the source texts both passes are run on
AllSources == Sources \cup LongSources

\* the tables transform_lines is called with: an empty one, one of the shape
\* build_table returns, and one that maps labels to addresses
TableSamples ==
    { <<>>,
      [label |-> "loop", position |-> 0],
      [loop |-> 0, x |-> 1] }

\* main, lines 393-394: build_table(lines) on the lines read
InitMain ==
    /\ lines \in AllSources
    /\ lnum = 0
    /\ curr_addr = 0
    /\ sym_table = <<>>
    /\ a_phase = "pass1"
    /\ a_entry = "main"
    /\ Pass2Idle

\* transform_lines(lines, sym_table), lines 317-318
InitTransform ==
    /\ lines \in AllSources
    /\ lnum = 0
    /\ curr_addr = 0
    /\ sym_table \in TableSamples
    /\ a_phase = "pass2"
    /\ a_entry = "transform_lines"
    /\ Pass2Idle

-----------------------------------------------------------------------------
(* The specifications. *)

\* the CPU on a program
Init == InitCPUVars /\ CodecIdle /\ AsmIdle

Next ==
    \/ Step
    \/ \E addr \in StartAddrs, single \in BOOLEAN : RunStart(addr, single)
    \/ RunPrompt
    \/ RunPromptEOF
    \/ RunStep
    \/ RunReturn

Spec == Init /\ [][Next]_vars

\* the codec on a record
InitCodec == CPUIdle /\ InitCodecVars /\ AsmIdle

NextCodec == Encode \/ Decode

SpecCodec == InitCodec /\ [][NextCodec]_vars

\* the codec on a record whose values need not fit their fields
InitCodecWide == CPUIdle /\ InitCodecWideVars /\ AsmIdle

SpecCodecWide == InitCodecWide /\ [][NextCodec]_vars

\* the assembler on a source text
InitAsm == CPUIdle /\ CodecIdle /\ InitAsmVars

NextAsm == build_table_line \/ build_table_return

SpecAsm == InitAsm /\ [][NextAsm]_vars

\* both passes: main on a source text, or transform_lines on a source text and
\* a table
InitAssemble == CPUIdle /\ CodecIdle /\ (InitMain \/ InitTransform)

NextAssemble ==
    \/ build_table_line
    \/ build_table_return
    \/ main_transform
    \/ transform_line
    \/ transform_return

SpecAssemble == InitAssemble /\ [][NextAssemble]_vars

-----------------------------------------------------------------------------
(* What the latest step() call did, read off the record it left. *)

\* the latest step() decoded its word
LastDecoded == last.outcome \in {"skipped", "executed", "access_error"}

\* the latest step() found the predicate true
LastRan == last.outcome \in {"executed", "access_error"}

\* the instruction the latest step() decoded
LastInstr == decode(last.word)

\* the ALU result of the latest step(), from the registers it started with
LastResult ==
    ALUResult(LastInstr.op,
              RegGet(last.registers, LastInstr.reg_src1),
              RegGet(last.registers, LastInstr.reg_src2) + LastInstr.offset)

\* exactly one of M, Z, P is in the flag set c
OneSignFlag(c) == Cardinality(FlagBits(c) \cap {M, Z, P}) = 1

-----------------------------------------------------------------------------
(* The claims. *)

\* C1: for every well-formed Instruction record i (any opcode, any of the 16
\* condition sets, register indices in 0..15, offset in -512..511, negative
\* ones included), decoding the word i encodes to does not raise and yields a
\* record field-wise equal to i.
C1_RoundTrip ==
    /\ c_phase /= "raised"
    /\ c_phase = "decoded" => c_decoded = c_instr

\* C1: a record with the most negative offset, a mixed condition set and
\* register 15 has been encoded and decoded.
C1_Witness ==
    /\ c_phase = "decoded"
    /\ c_instr.offset = -512
    /\ c_instr.cond = M + P
    /\ c_instr.reg_target = 15
    /\ c_instr.op = "DIV"

\* C2: the flag register is never empty, and step() runs the instruction it
\* fetched exactly when (flags & condition) is non-empty: a NEVER instruction
\* is always skipped and an ALWAYS instruction is never skipped.
C2_Predicate ==
    /\ cond_flag /= NEVER
    /\ LastRan => FlagAnd(last.cond_flag, LastInstr.cond) /= NEVER
    /\ last.outcome = "skipped" => FlagAnd(last.cond_flag, LastInstr.cond) = NEVER
    /\ (LastDecoded /\ LastInstr.cond = NEVER) => last.outcome = "skipped"
    /\ (LastDecoded /\ LastInstr.cond = ALWAYS) => LastRan

\* C2: an ALWAYS instruction ran while the flag register held M alone, after a
\* NEVER instruction had been fetched (and skipped).
C2_Witness ==
    /\ last.outcome = "executed"
    /\ LastInstr.cond = ALWAYS
    /\ last.cond_flag = M
    /\ \E n \in 1..(Len(events) - 1) : events[n].instr.cond = NEVER

\* C3: a step() that finds the predicate false adds 1 to the program counter
\* and changes nothing else: not registers 0..14, not memory, not the flag
\* register, not halted, whatever the opcode.
C3_SkipFrame ==
    last.outcome = "skipped" =>
        /\ RegGet(registers, PC) = RegGet(last.registers, PC) + 1
        /\ \A r \in 0..14 : RegGet(registers, r) = RegGet(last.registers, r)
        /\ memory = last.memory
        /\ cond_flag = last.cond_flag
        /\ halted = last.halted

\* C3: a STORE was skipped on a CPU whose flags an earlier instruction had set.
C3_Witness ==
    /\ last.outcome = "skipped"
    /\ LastInstr.op = "STORE"
    /\ LastInstr.cond /= NEVER
    /\ last.cond_flag = Z

\* C4: after a step() that ran its instruction to the end, the program counter
\* is the value dispatch wrote (the loaded word, or the ALU result) when the
\* opcode is LOAD or an ALU opcode and the target is register 15, and is its
\* value before the step plus 1 in every other case.
C4_ProgramCounter ==
    last.outcome = "executed" =>
        RegGet(registers, PC) =
            IF LastInstr.reg_target = PC /\ LastInstr.op \notin {"HALT", "STORE"}
            THEN IF LastInstr.op = "LOAD" THEN last.memory[LastResult]
                                          ELSE LastResult
            ELSE RegGet(last.registers, PC) + 1

\* C4: an ADD into register 15 left the program counter elsewhere than at the
\* next address.
C4_Witness ==
    /\ last.outcome = "executed"
    /\ LastInstr.op = "ADD"
    /\ LastInstr.reg_target = PC
    /\ RegGet(registers, PC) /= RegGet(last.registers, PC) + 1

\* the word of  HALT ALWAYS r0,r0,r0[0]
HaltAlways == encode(Instruction("HALT", ALWAYS, 0, 0, 0, 0))

\* the latest step() was the first one of a fresh CPU, at address 0, and
\* fetched HALT ALWAYS r0,r0,r0[0]
C5_FirstStepOnHalt ==
    /\ last.outcome /= "none"
    /\ last.events = <<>>
    /\ last.registers = NewRegisters
    /\ last.cond_flag = InitialFlags
    /\ last.word = HaltAlways

\* C5 as stated: the first step() of a fresh CPU on HALT ALWAYS r0,r0,r0[0] at
\* address 0 halts it and leaves all 16 registers as they were before the step.
C5_AllRegistersKept ==
    C5_FirstStepOnHalt =>
        /\ ~last.halted /\ halted
        /\ \A r \in 0..15 : RegGet(registers, r) = RegGet(last.registers, r)

\* C5 as amended: that step halts the CPU (halted is false before it and true
\* after it), leaves registers 0..14 as they were and leaves the program
\* counter, register 15, at 1.
C5_HaltInOneStep ==
    C5_FirstStepOnHalt =>
        /\ last.outcome = "executed"
        /\ ~last.halted /\ halted
        /\ \A r \in 0..14 : RegGet(registers, r) = RegGet(last.registers, r)
        /\ RegGet(registers, PC) = 1
        /\ Len(events) = 1

\* C5: run(0) on a fresh CPU holding HALT ALWAYS r0,r0,r0[0] at address 0
\* returned after one step.
C5_Witness ==
    /\ C5_FirstStepOnHalt
    /\ ctl = "returned"
    /\ step_count = 1
    /\ halted

\* C6: run(from_addr) sets the program counter to from_addr before its first
\* step; it performs a step only while halted is false (and in single-step
\* mode waits for a line only while halted is false); it returns only when
\* halted is true, and when it has performed steps, right after the first one
\* that ran a HALT (a skipped HALT leaves it running); inside run, at the loop
\* test, returning is possible exactly when halted is true.
C6_RunUntilHalt ==
    /\ (ctl \in {"running", "prompt"} /\ step_count = 0) =>
          RegGet(registers, PC) = from_addr
    /\ (ctl \in {"running", "prompt", "returned"} /\ step_count > 0) =>
          /\ ~last.halted
          /\ halted <=> (last.outcome = "executed" /\ LastInstr.op = "HALT")
    /\ ctl = "returned" => halted
    /\ ctl = "prompt" => ~halted
    /\ ctl = "running" => (halted <=> ENABLED RunReturn)

\* C6: run returned after two steps, the first of which fetched a HALT and
\* skipped it.
C6_Witness ==
    /\ ctl = "returned"
    /\ step_count = 2
    /\ Len(events) = 2
    /\ events[1].instr.op = "HALT"
    /\ events[2].instr.op = "HALT"

\* C7: register 0 reads 0 in every reachable state, and a LOAD or ALU
\* instruction that ran with target register 0 changed no register but the
\* program counter.
C7_ZeroRegister ==
    /\ RegGet(registers, 0) = 0
    /\ (last.outcome = "executed" /\ LastInstr.reg_target = 0
          /\ LastInstr.op \notin {"HALT", "STORE"}) =>
          \A r \in 0..14 : RegGet(registers, r) = RegGet(last.registers, r)

\* C7: a MUL with target register 0 ran and its result was positive.
C7_Witness ==
    /\ last.outcome = "executed"
    /\ LastInstr.op = "MUL"
    /\ LastInstr.reg_target = 0
    /\ LastResult > 0

\* the opcode field values no OpCode member has: 4 and 8..31
UndefinedOps == (0..31) \ {OpCode[n] : n \in OpNames}

\* the opcode field of a word
OpField(word) == extract(instr_field[1], instr_field[2], word)

\* C8: decode raises on every word whose opcode field is 4 or in 8..31,
\* whatever its condition field; a step() that fetches such a word raises
\* before any effect (registers, flags, halted, memory and the observations
\* are those from before the step) and the exception leaves the engine; no
\* step() gets past decoding such a word. (The first conjunct does not depend
\* on the state; it is evaluated on the fresh CPUs whose memory holds the same
\* word at every address.)
C8_DecodingError ==
    /\ (ctl = "idle" /\ events = <<>> /\ \A a \in Addresses : memory[a] = memory[0]) =>
          \A op \in UndefinedOps, c \in 0..15 : ~DecodeOK(RawWord(op, c))
    /\ last.outcome = "decode_error" =>
          /\ OpField(last.word) \in UndefinedOps
          /\ registers = last.registers
          /\ cond_flag = last.cond_flag
          /\ halted = last.halted
          /\ memory = last.memory
          /\ events = last.events
          /\ ctl = "failed"
    /\ LastDecoded => OpField(last.word) \notin UndefinedOps

\* C8: a step() raised on a word with an undefined opcode whose condition field
\* is NEVER, on a CPU that had run an instruction before.
C8_Witness ==
    /\ last.outcome = "decode_error"
    /\ extract(cond_field[1], cond_field[2], last.word) = NEVER
    /\ Len(events) > 0

\* C9 as stated: in every reachable state, from construction on, the flag
\* register holds exactly one of M, Z, P, with or without V.
C9_OneSignFlagAlways == OneSignFlag(cond_flag)

\* C9 as amended: the flag register holds ALWAYS (all four flags) from
\* construction until the first instruction runs, and from then on exactly one
\* of M, Z, P, with or without V.
C9_FlagRegister ==
    /\ cond_flag = ALWAYS \/ OneSignFlag(cond_flag)
    /\ LastRan => OneSignFlag(cond_flag)
    /\ OneSignFlag(last.cond_flag) => OneSignFlag(cond_flag)
    /\ events = <<>> => cond_flag = ALWAYS

\* C9: the flag register holds Z with V, after a division by zero, and a later
\* instruction was skipped.
C9_Witness ==
    /\ cond_flag = Z + V
    /\ last.outcome = "skipped"

\* the lines that carry this label
LinesWithLabel(label) == {n \in 1..Len(lines) : LabelOf(lines[n]) = label}

\* the address of line n: the number of non-COMMENT lines before it
AddressOfLine(n) == Cardinality({m \in 1..(n - 1) : KindOf(lines[m]) /= "COMMENT"})

\* the first line that carries this label
FirstLineWithLabel(label) ==
    CHOOSE n \in LinesWithLabel(label) : \A m \in LinesWithLabel(label) : n <= m

\* C10: the table build_table returns maps every label a line carries to the
\* address of the first line carrying it, the number of non-COMMENT lines
\* before that line.
C10_LabelAddresses ==
    a_phase = "table" =>
        \A n \in 1..Len(lines) :
            LET label == LabelOf(lines[n])
            IN  label /= None =>
                  /\ label \in DOMAIN sym_table
                  /\ sym_table[label] = AddressOfLine(FirstLineWithLabel(label))

-----------------------------------------------------------------------------
(* Pass 2, read off the record transform_lines left of each line. *)

\* the turns of transform_lines' loop so far
DoneTurns == 1..Len(done_lines)

\* the fields of the source line of a turn
DoneFields(d) == parse_line(lines[d.lnum + 1])

\* the instruction address of the source line of a turn
DoneAddress(d) == AddressOfLine(d.lnum + 1)

\* the error count before turn i of transform_lines' loop
CountBefore(i) == IF i = 1 THEN 0 ELSE done_lines[i - 1].count

\* a turn on a SYMBOLIC line with one of these opcodes whose symbol is a key of
\* the symbol table
ResolvableTurn(d, opcodes) ==
    /\ d.kind = "SYMBOLIC"
    /\ DoneFields(d).opcode \in opcodes
    /\ DoneFields(d).symbol \in DOMAIN sym_table

\* C11: transform_lines rewrites every SYMBOLIC JUMP line whose symbol is in
\* the symbol table, with address t, into one printed line with opcode ADD and
\* target r15 whose offset is t minus the line's own instruction address, and
\* counts no error for it.
C11_JumpBecomesAdd ==
    \A i \in DoneTurns :
        LET d == done_lines[i]
        IN  ResolvableTurn(d, {"JUMP"}) =>
              /\ d.report = None
              /\ Len(d.printed) = 1
              /\ d.printed[1].opcode = "ADD"
              /\ d.printed[1].target = "r15"
              /\ d.printed[1].offset =
                     sym_table[DoneFields(d).symbol] - DoneAddress(d)

\* C12: transform_lines rewrites every SYMBOLIC LOAD or STORE line whose symbol
\* is in the symbol table, with address t, into one printed line of the FULL
\* shape that keeps the opcode, the target register and the predicate (ALWAYS
\* when the source line has none), names registers as sources, and has as
\* offset t minus the value of its base register, the program counter, at the
\* line's instruction address; and counts no error for it.
C12_LoadStoreResolved ==
    \A i \in DoneTurns :
        LET d == done_lines[i]
            f == DoneFields(d)
        IN  ResolvableTurn(d, {"LOAD", "STORE"}) =>
              /\ d.report = None
              /\ d.count = CountBefore(i)
              /\ Len(d.printed) = 1
              /\ d.printed[1].opcode = f.opcode
              /\ d.printed[1].target = f.target
              /\ d.printed[1].predicate =
                     IF f.predicate = None THEN "ALWAYS" ELSE f.predicate
              /\ d.printed[1].src1 \in RegWords
              /\ d.printed[1].src2 = "r15"
              /\ d.printed[1].offset = sym_table[f.symbol] - DoneAddress(d)

\* C13: transform_lines counts no error for a FULL, DATA or COMMENT line and
\* writes the line out; a FULL or DATA line adds exactly 1 to the address
\* counter and a COMMENT line leaves it; resolve_line is called for SYMBOLIC
\* lines only.
C13_PassThrough ==
    \A i \in DoneTurns :
        LET d == done_lines[i]
        IN  /\ d.resolved => d.kind = "SYMBOLIC"
            /\ d.kind \in {"FULL", "DATA", "COMMENT"} =>
                  /\ d.report = None
                  /\ d.count = CountBefore(i)
                  /\ d.addr_after =
                         d.addr_before + (IF d.kind = "COMMENT" THEN 0 ELSE 1)
                  /\ Len(d.printed) = 1

\* the turns of transform_lines' loop in which an exception was raised
FailedTurns == {i \in DoneTurns : done_lines[i].report /= None}

\* C14: in transform_lines the error count is the number of lines gone through
\* that raised, each such line adding exactly 1 and every other line nothing;
\* the lines are gone through in order, one turn each; sys.exit(1) is reached
\* exactly when the count exceeds ERROR_LIMIT, which is at the 6th error, in the
\* turn that raised it, and then no further line is gone through; while the
\* count is at most ERROR_LIMIT the loop stands at the first line not yet gone
\* through, and transform_lines returns only after the last line.
C14_ErrorBudget ==
    /\ error_count = Cardinality(FailedTurns)
    /\ \A i \in DoneTurns :
          /\ done_lines[i].lnum = i - 1
          /\ done_lines[i].count =
                 CountBefore(i) + (IF i \in FailedTurns THEN 1 ELSE 0)
    /\ a_phase = "exit" <=> error_count > ERROR_LIMIT
    /\ a_phase = "exit" =>
          /\ error_count = ERROR_LIMIT + 1
          /\ Len(done_lines) \in FailedTurns
          /\ ~ENABLED transform_line
          /\ ~ENABLED transform_return
    /\ a_phase = "pass2" =>
          /\ error_count <= ERROR_LIMIT
          /\ t_lnum = Len(done_lines)
    /\ a_phase = "done" =>
          /\ error_count <= ERROR_LIMIT
          /\ Len(done_lines) = Len(lines)

\* C14: sys.exit(1) was reached at the 6th line of a text of 7 lines, after
\* errors of all three kinds.
C14_Witness ==
    /\ a_phase = "exit"
    /\ Len(lines) = ERROR_LIMIT + 2
    /\ Len(done_lines) = ERROR_LIMIT + 1
    /\ {done_lines[i].report : i \in DoneTurns} =
           {"Syntax error", "Unknown label", "Exception encountered"}

\* the source lines, by number, that match none of the four patterns
SyntaxErrorLines == {n \in 1..Len(lines) : KindOf(lines[n]) = None}

\* C15: in a run of main no exception leaves the assembler because of a line
\* that matches none of the four patterns: as long as the error count is
\* within ERROR_LIMIT the run reaches the end of pass 2, and at that point
\* every such line has been reported as a syntax error with its line number
\* and has added exactly 1 to the error count.
C15_SyntaxErrorRecovered ==
    a_entry = "main" =>
        /\ a_phase /= "crashed"
        /\ a_phase = "done" =>
              \A n \in SyntaxErrorLines :
                  /\ n \in DoneTurns
                  /\ done_lines[n].lnum = n - 1
                  /\ done_lines[n].report = "Syntax error"
                  /\ done_lines[n].count = CountBefore(n) + 1

\* C16: transform_lines reports a SYMBOLIC line whose symbol is not in the
\* symbol table as an unknown label, adds exactly 1 to the error count for it
\* and prints no line for it; it never reports a SYMBOLIC line whose symbol is
\* in the table as an unknown label.
C16_UnresolvedLabel ==
    \A i \in DoneTurns :
        LET d == done_lines[i]
        IN  d.kind = "SYMBOLIC" =>
              IF DoneFields(d).symbol \in DOMAIN sym_table
              THEN d.report /= "Unknown label"
              ELSE /\ d.report = "Unknown label"
                   /\ d.count = CountBefore(i) + 1
                   /\ d.printed = <<>>

-----------------------------------------------------------------------------
(* The memory instructions and the operands of the latest step(). *)

\* the values of the source registers when the latest step() started
LastVal1 == RegGet(last.registers, LastInstr.reg_src1)

LastVal2 == RegGet(last.registers, LastInstr.reg_src2)

\* the address of the memory instruction the latest step() ran
LastAddress == LastVal1 + (LastVal2 + LastInstr.offset)

\* the latest step() ran an instruction with this opcode to its end
LastExecuted(op) == last.outcome = "executed" /\ LastInstr.op = op

\* C17: after a LOAD that ran, the target register holds the word memory held
\* at src1_value + (src2_value + offset), the source values being those from
\* before the step (register 0 as target still reads 0); every register other
\* than the target and the program counter is as before, the program counter
\* is advanced by 1 unless it is the target, and memory is as before.
C17_Load ==
    LastExecuted("LOAD") =>
        /\ RegGet(registers, LastInstr.reg_target) =
               IF IsZeroRegister(LastInstr.reg_target) THEN 0
               ELSE last.memory[LastAddress]
        /\ \A r \in (0..15) \ {LastInstr.reg_target, PC} :
               RegGet(registers, r) = RegGet(last.registers, r)
        /\ LastInstr.reg_target /= PC =>
               RegGet(registers, PC) = RegGet(last.registers, PC) + 1
        /\ memory = last.memory

\* C17: a LOAD from address 1 changed register 1.
C17_Witness ==
    /\ LastExecuted("LOAD")
    /\ LastInstr.reg_target = 1
    /\ LastAddress = 1
    /\ RegGet(registers, 1) /= RegGet(last.registers, 1)
    /\ RegGet(registers, 1) /= LastAddress

\* C18: after a STORE that ran, the memory word at src1_value + (src2_value +
\* offset) is the value the target register held at dispatch, which is its
\* value before the step, or that value plus 1 when the target is the program
\* counter; every other memory word is as before; the program counter is
\* advanced by 1 and every other register is as before.
C18_Store ==
    LastExecuted("STORE") =>
        /\ memory[LastAddress] =
               IF LastInstr.reg_target = PC
               THEN RegGet(last.registers, PC) + 1
               ELSE RegGet(last.registers, LastInstr.reg_target)
        /\ \A a \in Addresses \ {LastAddress} : memory[a] = last.memory[a]
        /\ RegGet(registers, PC) = RegGet(last.registers, PC) + 1
        /\ \A r \in 0..14 : RegGet(registers, r) = RegGet(last.registers, r)

\* C18: a STORE with the program counter as target, fetched at address 1,
\* changed the memory word at address 2 to 2.
C18_Witness ==
    /\ LastExecuted("STORE")
    /\ LastInstr.reg_target = PC
    /\ RegGet(last.registers, PC) = 1
    /\ LastAddress = 2
    /\ memory[2] = 2
    /\ last.memory[2] /= 2

\* C19: after every instruction that ran, whatever its opcode, the flag register
\* holds the flags the ALU returns for the opcode, src1_value and src2_value +
\* offset, the source values being those from before the step; for HALT, LOAD
\* and STORE these are the sign of src1_value + src2_value + offset (M when
\* negative, Z when zero, P when positive), whatever the flags were before.
C19_FlagsFromALU ==
    last.outcome = "executed" =>
        /\ cond_flag =
               ALUFlags(LastInstr.op, LastVal1, LastVal2 + LastInstr.offset)
        /\ LastInstr.op \in {"HALT", "LOAD", "STORE"} =>
               cond_flag = SignFlag(LastAddress)

\* C19: a STORE to address 0 ran while the flag register held M and left Z in
\* it.
C19_Witness ==
    /\ LastExecuted("STORE")
    /\ last.cond_flag = M
    /\ LastAddress = 0
    /\ cond_flag = Z

\* the latest step() ran an instruction that names register 15 as a source
LastReadsPC ==
    /\ last.outcome = "executed"
    /\ LastInstr.reg_src1 = PC \/ LastInstr.reg_src2 = PC

\* C20: an instruction that ran and names register 15 as src1 or src2 computed
\* with the address a it was fetched from, not with a + 1: the flags it left,
\* the value an ALU opcode wrote to its target and the address a LOAD or STORE
\* used are those computed from a; an ADD r15,r0,r15[d] that ran at address a
\* left the program counter at a + d.
C20_OperandsBeforeIncrement ==
    /\ LastReadsPC =>
          /\ cond_flag =
                 ALUFlags(LastInstr.op, LastVal1, LastVal2 + LastInstr.offset)
          /\ (LastInstr.op \notin {"HALT", "LOAD", "STORE"}
                /\ ~IsZeroRegister(LastInstr.reg_target)) =>
                 RegGet(registers, LastInstr.reg_target) = LastResult
          /\ (LastInstr.op = "LOAD" /\ ~IsZeroRegister(LastInstr.reg_target)) =>
                 RegGet(registers, LastInstr.reg_target) = last.memory[LastAddress]
          /\ LastInstr.op = "STORE" =>
                 memory[LastAddress] =
                     IF LastInstr.reg_target = PC
                     THEN RegGet(last.registers, PC) + 1
                     ELSE RegGet(last.registers, LastInstr.reg_target)
    /\ (LastExecuted("ADD") /\ LastInstr.reg_target = PC
          /\ LastInstr.reg_src1 = 0 /\ LastInstr.reg_src2 = PC) =>
          RegGet(registers, PC) = RegGet(last.registers, PC) + LastInstr.offset

\* C20: ADD r15,r0,r15[-1] ran at address 1 and left the program counter at 0.
C20_Witness ==
    /\ LastExecuted("ADD")
    /\ LastInstr.reg_target = PC
    /\ LastInstr.reg_src2 = PC
    /\ LastInstr.offset = -1
    /\ RegGet(last.registers, PC) = 1
    /\ RegGet(registers, PC) = 0

-----------------------------------------------------------------------------
(* The codec on values that do not fit their fields. *)

\* the value a field of this width keeps of v
Truncated(v, field) == v % (2 ^ FieldWidth(field[1], field[2]))

\* a field of a word
FieldOf(field, word) == extract(field[1], field[2], word)

\* C21: for every Instruction record, whatever its offset and register values
\* (negative, or wider than their fields), encode returns a word in
\* 0..2^31-1 (not negative, nothing at or above bit 31: the word shifted right
\* by 30 is 0 or 1), in which every field holds the record's value
\* truncated to the field's width: a value that does not fit changes no other
\* field. Decoding the word does not raise and yields the record's opcode and
\* condition, its register indices modulo 16 (the indices themselves when they
\* are in 0..15) and its offset modulo 1024 read as a signed 10-bit number.
C21_EncodeTruncates ==
    /\ c_phase /= "raised"
    /\ c_phase \in {"encoded", "decoded"} =>
          /\ 0 <= c_word
          /\ c_word \div (2 ^ (reserved[1] - 1)) \in {0, 1}
          /\ FieldOf(instr_field, c_word) = OpCode[c_instr.op]
          /\ FieldOf(cond_field, c_word) = c_instr.cond
          /\ FieldOf(reg_target_field, c_word) =
                 Truncated(c_instr.reg_target, reg_target_field)
          /\ FieldOf(reg_src1_field, c_word) =
                 Truncated(c_instr.reg_src1, reg_src1_field)
          /\ FieldOf(reg_src2_field, c_word) =
                 Truncated(c_instr.reg_src2, reg_src2_field)
          /\ FieldOf(offset_field, c_word) = Truncated(c_instr.offset, offset_field)
    /\ c_phase = "decoded" =>
          /\ c_decoded.op = c_instr.op
          /\ c_decoded.cond = c_instr.cond
          /\ c_decoded.reg_target = c_instr.reg_target % 16
          /\ c_decoded.reg_src1 = c_instr.reg_src1 % 16
          /\ c_decoded.reg_src2 = c_instr.reg_src2 % 16
          /\ (c_decoded.offset - c_instr.offset) % 1024 = 0
          /\ -512 <= c_decoded.offset /\ c_decoded.offset <= 511

\* C21: a record with offset -513, outside the field's range, and register
\* indices 0, 15 and 0 was encoded and decoded: the offset came back as 511
\* and the register indices as they were.
C21_Witness ==
    /\ c_phase = "decoded"
    /\ c_instr.offset = -513
    /\ c_decoded.offset = 511
    /\ c_instr.reg_target = 0 /\ c_decoded.reg_target = 0
    /\ c_instr.reg_src1 = 15 /\ c_decoded.reg_src1 = 15
    /\ c_instr.reg_src2 = 0 /\ c_decoded.reg_src2 = 0
    /\ c_instr.op = "DIV"
    /\ c_instr.cond = ALWAYS

-----------------------------------------------------------------------------
(* The halted flag. *)

\* what C22 says of every state
HaltedInState ==
    \* false at construction
    /\ (ctl = "idle" /\ last.outcome = "none") => ~halted
    \* a step() that started halted ends halted
    /\ last.halted => halted
    \* a step() that set it ran a HALT
    /\ (~last.halted /\ halted) => LastExecuted("HALT")
    \* a run that returned without a step was called on a halted CPU, and set
    \* the program counter
    /\ (ctl = "returned" /\ step_count = 0) =>
          /\ halted
          /\ last.outcome = "none"
          /\ RegGet(registers, PC) = from_addr

\* what C22 says of every step of the machine
HaltedInStep ==
    \* no call sets it back to false
    /\ halted => halted'
    \* only a step() that runs a HALT sets it
    /\ (~halted /\ halted') =>
          /\ last'.outcome = "executed"
          /\ last'.registers = registers
          /\ decode(last'.word).op = "HALT"
    \* entering run sets the program counter and has performed no step
    /\ (ctl \in {"idle", "returned"} /\ ctl' = "running") =>
          /\ RegGet(registers', PC) = from_addr'
          /\ step_count' = 0
          /\ events' = events
    \* inside run on a halted CPU the only thing that happens is the return
    /\ (ctl = "running" /\ halted) =>
          /\ ctl' = "returned"
          /\ UNCHANGED <<registers, memory, cond_flag, events, step_count>>

\* C22: halted is false when the CPU is made; only a step() that runs a HALT
\* sets it; once it is true no step() and no run() sets it back to false; a
\* run() on a CPU that is already halted sets the program counter to its
\* argument and returns without performing a step.
C22_HaltedMonotone == []HaltedInState /\ [][HaltedInStep]_vars

\* C22: a second run(1), on a CPU an earlier run had left halted, returned with
\* no step performed and the program counter at 1.
C22_Witness ==
    /\ ctl = "returned"
    /\ step_count = 0
    /\ halted
    /\ from_addr = 1
    /\ RegGet(registers, PC) = 1
    /\ Len(events) >= 1
    /\ events[Len(events)].instr.op = "HALT"

=============================================================================
